---- MODULE Spec2Model ----
(***************************************************************************)
(* Model of the portfolio rebalancing calculator (rebalancer.js):          *)
(* rebalancePortfolio(amount, assetClasses) and                            *)
(* calculateBalancingContribution(assetClasses).                           *)
(*                                                                         *)
(* Numbers.  The program computes in JavaScript doubles.  The model        *)
(* computes the same expressions in exact rational arithmetic:             *)
(*   - money is an integer number of units, Cent units to the cent, so an  *)
(*     input may carry a sub-cent fraction;                                *)
(*   - a targetPercent is an integer number of units, Percent units to the *)
(*     percentage point (33.33 is 3333);                                   *)
(*   - an intermediate quotient is kept as numerator and denominator until *)
(*     the program rounds or compares it;                                  *)
(*   - NaN (the program's 0/0) is kept as a flag beside the value.         *)
(***************************************************************************)
EXTENDS Integers, Sequences, FiniteSets

\* Model units per cent: roundToCents rounds to a multiple of Cent.
Cent == 10
\* Model units per percentage point of a targetPercent.
Percent == 100
\* 100 percent, and the divisor of "targetPercent / 100", in targetPercent units.
Hundred == 100 * Percent

(***************************************************************************)
(* Bounds of the inputs.                                                   *)
(***************************************************************************)
\* currentValues of 0..MaxSmallValue cents (beside the larger ones below)
MaxSmallValue == 2
\* amounts of -MaxSmallAmount..MaxSmallAmount cents (beside the larger ones)
MaxSmallAmount == 2

LargeValues == {100, 333}
LargeAmounts == {-400, -100, 100, 500}
\* amounts with a sub-cent fraction, in units
SubCentAmounts == {-4, 6}

Values == {c * Cent : c \in (0..MaxSmallValue) \cup LargeValues}

\* The target allocations of the portfolios, in targetPercent units.  Sums of
\* 10000 and 10001 pass the validation, 9000 and 14000 do not.
TargetProfiles ==
  { <<10000>>,
    <<6000, 4000>>, <<10000, 0>>, <<5001, 5000>>, <<5000, 4000>>, <<9000, 5000>>,
    << >>,
    <<8000, 1000, 1000>>, <<3334, 3333, 3333>>, <<0, 5000, 5000>> }

Abs(x) == IF x < 0 THEN -x ELSE x
Max(a, b) == IF a >= b THEN a ELSE b
Min(a, b) == IF a <= b THEN a ELSE b

RECURSIVE SumOver(_, _)
\* sum of f[i] over the indices in the set S
SumOver(f, S) ==
  IF S = {} THEN 0
  ELSE LET i == CHOOSE x \in S : TRUE IN f[i] + SumOver(f, S \ {i})

(***************************************************************************)
(* roundToCents(value) for value = num / den units (den > 0):              *)
(* Math.round(value * 100) / 100, Math.round rounding a half upwards.      *)
(***************************************************************************)
roundToCents(num, den) == ((2 * num + Cent * den) \div (2 * Cent * den)) * Cent

\* Math.round(percent * 100) / 100 for percent = num / den targetPercent units:
\* a percentage rounded to hundredths of a point.
roundToHundredths(num, den) ==
  LET unit == Percent \div 100
  IN ((2 * num + unit * den) \div (2 * unit * den)) * unit

VARIABLES
  pc,               \* position in the call
  isArray,          \* Array.isArray(assetClasses); assetClasses is << >> if it is not
  assetClasses,     \* the input list: <<[targetPercent, currentValue, sell], ...>>
  amount,           \* the input amount
  workingValue,     \* asset.workingValue, by index
  transaction,      \* asset.transaction, by index
  isNaN,            \* the assets whose workingValue and transaction are NaN
  remainingAmount,  \* remainingAmount
  remainingNaN,     \* remainingAmount is NaN
  iteration,        \* iteration of the internal rebalancing loop
  branch,           \* the branch that applied the external amount
  result,           \* the returned object, or the number returned
  error,            \* the error thrown
  call,             \* which function was called, and how
  totalBefore,      \* totalBefore
  totalAfter        \* totalAfter

vars == <<pc, isArray, assetClasses, amount, workingValue, transaction, isNaN,
          remainingAmount, remainingNaN, iteration, branch, result, error,
          call, totalBefore, totalAfter>>

N == Len(assetClasses)
Assets == 1..N
targetPercent(i) == assetClasses[i].targetPercent
currentValue(i) == assetClasses[i].currentValue
sell(i) == assetClasses[i].sell

\* assetClasses.reduce((sum, asset) => sum + asset.currentValue, 0)
TotalCurrentValue == SumOver([i \in Assets |-> currentValue(i)], Assets)
\* assetClasses.reduce((sum, asset) => sum + asset.targetPercent, 0)
totalTargetPercent == SumOver([i \in Assets |-> targetPercent(i)], Assets)

\* asset.targetValue = roundToCents((asset.targetPercent / 100) * totalAfter)
targetValue(i) == roundToCents(targetPercent(i) * totalAfter, Hundred)

Portfolios ==
  UNION { { [i \in 1..Len(p) |->
               [targetPercent |-> p[i], currentValue |-> v[i], sell |-> s[i]]] :
            v \in [1..Len(p) -> Values], s \in [1..Len(p) -> BOOLEAN] } :
          p \in TargetProfiles }

\* Portfolios of five equally weighted assets, all sellable or none: with
\* five roundings the cents left over by a branch can exceed one.
FiveAssetPortfolios ==
  { [i \in 1..5 |-> [targetPercent |-> 2000, currentValue |-> v[i], sell |-> s]] :
      v \in [1..5 -> {c * Cent : c \in LargeValues}], s \in BOOLEAN }

\* currentValues with a sub-cent fraction, in units (0.004, 0.006 and 1.004),
\* beside one of a whole cent
SubCentValues == {4, 6, Cent, 1004}

\* Portfolios whose currentValues carry sub-cent fractions.
SubCentPortfolios ==
  UNION { { [i \in 1..Len(p) |->
               [targetPercent |-> p[i], currentValue |-> v[i], sell |-> s[i]]] :
            v \in [1..Len(p) -> SubCentValues], s \in [1..Len(p) -> BOOLEAN] } :
          p \in { <<60 * Percent, 40 * Percent>>,
                  <<80 * Percent, 10 * Percent, 10 * Percent>> } }

\* The portfolio of the README's withdrawal example and of the test "Removing
\* $25,000 ...", every amount of money divided by 10000 (100000 dollars
\* become 10 dollars): Stocks 80%, Cash 10%, Bonds 10%, no asset sellable.
WithdrawalExample ==
  << [targetPercent |-> 80 * Percent, currentValue |-> 1000 * Cent, sell |-> FALSE],
     [targetPercent |-> 10 * Percent, currentValue |-> 400 * Cent, sell |-> FALSE],
     [targetPercent |-> 10 * Percent, currentValue |-> 500 * Cent, sell |-> FALSE] >>
\* the amount of that example, -25000 dollars divided by 10000
WithdrawalExampleAmount == -(250 * Cent)

NoResult == [kind |-> "none"]

\* the state before a call: nothing computed, nothing returned
Idle ==
  /\ pc = "idle"
  /\ amount = 0
  /\ workingValue = [i \in Assets |-> 0]
  /\ transaction = [i \in Assets |-> 0]
  /\ isNaN = {}
  /\ remainingAmount = 0
  /\ remainingNaN = FALSE
  /\ iteration = 0
  /\ branch = "none"
  /\ result = NoResult
  /\ error = "none"
  /\ call = "none"
  /\ totalBefore = 0
  /\ totalAfter = 0

Init ==
  /\ \/ /\ isArray = TRUE
        /\ assetClasses \in Portfolios \cup FiveAssetPortfolios \cup {WithdrawalExample}
     \/ /\ isArray = FALSE
        /\ assetClasses = << >>
  /\ Idle

\* the calls with currentValues that carry sub-cent fractions
InitSubCent ==
  /\ isArray = TRUE
  /\ assetClasses \in SubCentPortfolios
  /\ Idle

(***************************************************************************)
(* calculateDeviation(currentPercent, targetPercent) of asset i, with      *)
(* currentPercent = (workingValue / totalAfter) * 100 as every caller      *)
(* computes it.  The deviation is 0 for a targetPercent of 0 and otherwise *)
(* DevNum(i) / DevDen(i); only its comparisons are needed.                 *)
(***************************************************************************)
DevNum(i) == Hundred * workingValue[i] - totalAfter * targetPercent(i)
DevDen(i) == totalAfter * targetPercent(i)

\* 0.0001 as a fraction 1 / DeviationTolerance
DeviationTolerance == 10000

\* asset.deviation > 0.0001 (totalAfter > 0)
DeviationAbove(i) ==
  /\ targetPercent(i) # 0
  /\ DevNum(i) > DevDen(i) \div DeviationTolerance

\* asset.deviation < -0.0001 (totalAfter > 0)
DeviationBelow(i) ==
  /\ targetPercent(i) # 0
  /\ DevNum(i) < -(DevDen(i) \div DeviationTolerance)

\* the deviation where currentPercent is 0 (totalAfter is not positive)
DeviationAtZero(i) == IF targetPercent(i) = 0 THEN 0 ELSE -1

\* deviation of asset i < deviation of asset j
DeviationLess(i, j) ==
  IF totalAfter <= 0 THEN DeviationAtZero(i) < DeviationAtZero(j)
  ELSE IF targetPercent(i) = 0 /\ targetPercent(j) = 0 THEN FALSE
  ELSE IF targetPercent(i) = 0 THEN DevNum(j) > 0
  ELSE IF targetPercent(j) = 0 THEN DevNum(i) < 0
  ELSE workingValue[i] * targetPercent(j) < workingValue[j] * targetPercent(i)

\* The first asset of S, in list order, with the highest deviation:
\* S.sort((a, b) => b.deviation - a.deviation)[0], the sort being stable.
MostOverWeighted(S) ==
  CHOOSE i \in S : \A j \in S : /\ ~DeviationLess(i, j)
                                /\ (j < i => DeviationLess(j, i))

\* The first asset of S, in list order, with the lowest deviation.
MostUnderWeighted(S) ==
  CHOOSE i \in S : \A j \in S : /\ ~DeviationLess(j, i)
                                /\ (j < i => DeviationLess(i, j))

(***************************************************************************)
(* rebalancePortfolio: validation and setup.                               *)
(***************************************************************************)
sellableAssets == {i \in Assets : sell(i)}
allAssetsSellable == Cardinality(sellableAssets) = N
hasInternalRebalancing == sellableAssets # {}

\* Mutation of shouldDoInternalRebalancing: hasInternalRebalancing && totalAfter > 0.01
shouldDoInternalRebalancingAlways(amt) ==
  /\ hasInternalRebalancing
  /\ TotalCurrentValue + amt > Cent

\* hasInternalRebalancing && totalAfter > 0.01 && (amount >= 0 || allAssetsSellable)
shouldDoInternalRebalancing(amt) ==
  /\ hasInternalRebalancing
  /\ TotalCurrentValue + amt > Cent
  /\ (amt >= 0 \/ allAssetsSellable)

\* Mutation of TargetsInvalid: no tolerance, totalTargetPercent !== 100.
TargetsInvalidStrict == totalTargetPercent # Hundred

\* Math.abs(totalTargetPercent - 100) > 0.01
TargetsInvalid == Abs(totalTargetPercent - Hundred) * 100 > Percent

\* Mutation of ValidationError: a withdrawal of the whole portfolio is rejected.
ValidationErrorStrict(amt) ==
  IF ~isArray \/ N = 0 THEN "assetClasses must be a non-empty array"
  ELSE IF TotalCurrentValue + amt <= 0 THEN "Withdrawal amount exceeds total portfolio value"
  ELSE IF TargetsInvalid THEN "Target percentages must sum to 100%"
  ELSE "none"

\* Mutation of ValidationError: the targets are validated before totalAfter.
ValidationErrorTargetsFirst(amt) ==
  IF ~isArray \/ N = 0 THEN "assetClasses must be a non-empty array"
  ELSE IF TargetsInvalid THEN "Target percentages must sum to 100%"
  ELSE IF TotalCurrentValue + amt < 0 THEN "Withdrawal amount exceeds total portfolio value"
  ELSE "none"

\* Mutation of ValidationError: totalAfter is validated before assetClasses.
ValidationErrorWithdrawalFirst(amt) ==
  IF TotalCurrentValue + amt < 0 THEN "Withdrawal amount exceeds total portfolio value"
  ELSE IF ~isArray \/ N = 0 THEN "assetClasses must be a non-empty array"
  ELSE IF TargetsInvalid THEN "Target percentages must sum to 100%"
  ELSE "none"

\* The error rebalancePortfolio(amt, assetClasses) throws, "none" if it throws none.
ValidationError(amt) ==
  IF ~isArray \/ N = 0 THEN "assetClasses must be a non-empty array"
  ELSE IF TotalCurrentValue + amt < 0 THEN "Withdrawal amount exceeds total portfolio value"
  ELSE IF TargetsInvalid THEN "Target percentages must sum to 100%"
  ELSE "none"

\* rebalancePortfolio(amt, assetClasses) up to the internal rebalancing loop
Enter(amt) ==
  /\ amount' = amt
  /\ error' = ValidationError(amt)
  /\ IF ValidationError(amt) = "assetClasses must be a non-empty array"
       THEN UNCHANGED <<totalBefore, totalAfter>>
       ELSE /\ totalBefore' = TotalCurrentValue
            /\ totalAfter' = TotalCurrentValue + amt
  /\ IF ValidationError(amt) # "none"
       THEN /\ pc' = "error"
            /\ UNCHANGED <<workingValue, remainingAmount>>
       ELSE /\ pc' = IF shouldDoInternalRebalancing(amt) THEN "internal" ELSE "external"
            /\ workingValue' = [i \in Assets |-> currentValue(i)]
            /\ remainingAmount' = amt
  /\ UNCHANGED <<isArray, assetClasses, transaction, isNaN, remainingNaN, iteration,
                 branch, result>>

\* The amounts a call is made with: small and large ones, the withdrawal of
\* the whole portfolio and one cent more than that.
Amounts ==
  {a * Cent : a \in (-MaxSmallAmount..MaxSmallAmount) \cup LargeAmounts}
    \cup SubCentAmounts
    \cup {-TotalCurrentValue, -TotalCurrentValue - Cent}
    \cup {WithdrawalExampleAmount}

CallRebalance ==
  /\ pc = "idle"
  /\ call' = "rebalancePortfolio"
  /\ \E amt \in Amounts : Enter(amt)

(***************************************************************************)
(* Internal rebalancing: one iteration of the transfer loop.               *)
(***************************************************************************)
maxIterations == 1000

\* Mutation of overWeighted: the seller need not be sellable.
overWeightedOfAll ==
  {i \in Assets : workingValue[i] > Cent /\ DeviationAbove(i)}

\* sellable, workingValue > 0.01, deviation > 0.0001
overWeighted ==
  {i \in Assets : sell(i) /\ workingValue[i] > Cent /\ DeviationAbove(i)}
\* Mutation of underWeighted: the buyer need not be sellable.
underWeightedOfAll == {i \in Assets : DeviationBelow(i)}

\* sellable, deviation < -0.0001
underWeighted == {i \in Assets : sell(i) /\ DeviationBelow(i)}

seller == MostOverWeighted(overWeighted)
buyer == MostUnderWeighted(underWeighted)

\* Mutation of transferNum: the buyer's deficit does not limit the transfer.
transferNumOfSeller ==
  Min(Max(0, Hundred * workingValue[seller] - targetPercent(seller) * totalAfter),
      Hundred * workingValue[seller])

\* Mutation of transferNum: half of the seller's excess is transferred.
transferNumHalf ==
  Max(0, Hundred * workingValue[seller] - targetPercent(seller) * totalAfter) \div 2

\* transferAmount * Hundred:
\* Math.min(Math.max(0, sellerExcess), Math.max(0, buyerDeficit), seller.workingValue)
transferNum ==
  Min(Min(Max(0, Hundred * workingValue[seller] - targetPercent(seller) * totalAfter),
          Max(0, targetPercent(buyer) * totalAfter - Hundred * workingValue[buyer])),
      Hundred * workingValue[seller])

\* Mutation of CanTransfer: the loop makes one transfer at most.
CanTransferOnce ==
  /\ iteration < 1
  /\ overWeighted # {}
  /\ underWeighted # {}
  /\ transferNum >= Cent * Hundred

\* the loop goes on to a transfer: a pair exists and transferAmount >= 0.01
CanTransfer ==
  /\ iteration < maxIterations
  /\ overWeighted # {}
  /\ underWeighted # {}
  /\ transferNum >= Cent * Hundred

roundedTransfer == roundToCents(transferNum, Hundred)

InternalTransfer ==
  /\ pc = "internal"
  /\ CanTransfer
  /\ iteration' = iteration + 1
  /\ workingValue' =
       [workingValue EXCEPT
          ![seller] = roundToCents(workingValue[seller] - roundedTransfer, 1),
          ![buyer] = roundToCents(workingValue[buyer] + roundedTransfer, 1)]
  /\ transaction' =
       [transaction EXCEPT
          ![seller] = roundToCents(transaction[seller] - roundedTransfer, 1),
          ![buyer] = roundToCents(transaction[buyer] + roundedTransfer, 1)]
  /\ UNCHANGED <<pc, isArray, assetClasses, amount, isNaN, remainingAmount, remainingNaN,
                 branch, result, error, call,
                 totalBefore, totalAfter>>

InternalDone ==
  /\ pc = "internal"
  /\ ~CanTransfer
  /\ pc' = "external"
  /\ UNCHANGED <<isArray, assetClasses, amount, workingValue, transaction, isNaN,
                 remainingAmount, remainingNaN, iteration, branch, result, error,
                 call, totalBefore, totalAfter>>

(***************************************************************************)
(* The external amount: a withdrawal.                                      *)
(***************************************************************************)
isContribution == amount > 0
isWithdrawal == amount < 0

\* Mutation of canAchievePerfectBalance: assets.some in place of assets.every.
canAchievePerfectBalanceOfSome ==
  \E i \in Assets :
    targetPercent(i) * totalAfter <= Hundred * (workingValue[i] + Cent)

\* assets.every(asset => (asset.targetPercent / 100) * totalAfter <= asset.workingValue + 0.01)
canAchievePerfectBalance ==
  \A i \in Assets :
    targetPercent(i) * totalAfter <= Hundred * (workingValue[i] + Cent)

\* sum of the targetPercent of the assets in S
TargetPercentOf(S) == SumOver([i \in Assets |-> targetPercent(i)], S)
\* sum of the workingValue of the assets in S
WorkingValueOf(S) == SumOver(workingValue, S)

\* Mutation of adjustment: the share is taken as targetPercent / 100 whatever
\* the targetPercents sum to.
adjustmentOverHundred(i, denom, total) ==
  roundToCents(targetPercent(i) * total - workingValue[i] * Hundred, Hundred)

\* roundToCents(targetFinalValue - asset.workingValue), with
\* targetFinalValue = (asset.targetPercent / denom) * total and denom > 0
adjustment(i, denom, total) ==
  roundToCents(targetPercent(i) * total - workingValue[i] * denom, denom)

RECURSIVE RemainingAfter(_, _, _, _, _)
\* remainingAmount = roundToCents(remainingAmount - adjustment) for the assets
\* of S in list order, from asset i on
RemainingAfter(rem, i, S, denom, total) ==
  IF i > N THEN rem
  ELSE RemainingAfter(
         IF i \in S THEN roundToCents(rem - adjustment(i, denom, total), 1) ELSE rem,
         i + 1, S, denom, total)

\* The loop "for (const asset of S)" of a withdrawal branch: every asset of S
\* is moved to (targetPercent / denom) * total.  A denom of 0 makes the
\* quotient 0 / 0: the adjustment, and with it workingValue, transaction and
\* remainingAmount, are NaN.
WithdrawTowards(S, denom, total) ==
  IF denom = 0 /\ S # {}
    THEN /\ isNaN' = S
         /\ remainingNaN' = TRUE
         /\ UNCHANGED <<workingValue, transaction, remainingAmount>>
    ELSE /\ workingValue' =
              [i \in Assets |->
                 IF i \in S
                   THEN roundToCents(workingValue[i] + adjustment(i, denom, total), 1)
                   ELSE workingValue[i]]
         /\ transaction' =
              [i \in Assets |->
                 IF i \in S
                   THEN roundToCents(transaction[i] + adjustment(i, denom, total), 1)
                   ELSE transaction[i]]
         /\ remainingAmount' = RemainingAfter(remainingAmount, 1, S, denom, total)
         /\ UNCHANGED <<isNaN, remainingNaN>>

\* what a withdrawal branch leaves alone
WithdrawalFrame(name) ==
  /\ pc' = "cleanup"
  /\ branch' = name
  /\ UNCHANGED <<isArray, assetClasses, amount, iteration, result, error, call,
                 totalBefore, totalAfter>>

\* assets with workingValue > 0.01
HoldingAssets == {i \in Assets : workingValue[i] > Cent}

\* Special case: withdrawing entire portfolio
WithdrawEntirePortfolio ==
  /\ pc = "external"
  /\ isWithdrawal
  /\ Abs(totalAfter) < Cent
  /\ workingValue' = [i \in Assets |-> IF workingValue[i] > 0 THEN 0 ELSE workingValue[i]]
  /\ transaction' =
       [i \in Assets |-> IF workingValue[i] > 0 THEN -workingValue[i] ELSE transaction[i]]
  /\ UNCHANGED <<isNaN, remainingAmount, remainingNaN>>
  /\ WithdrawalFrame("entire")

WithdrawPerfectBalance ==
  /\ pc = "external"
  /\ isWithdrawal
  /\ ~(Abs(totalAfter) < Cent)
  /\ canAchievePerfectBalance
  /\ WithdrawTowards(Assets, totalTargetPercent, totalAfter)
  /\ WithdrawalFrame("perfect")

sellableValue == WorkingValueOf(sellableAssets)

\* We can satisfy the withdrawal from sellable assets only
WithdrawFromSellable ==
  /\ pc = "external"
  /\ isWithdrawal
  /\ ~(Abs(totalAfter) < Cent)
  /\ ~canAchievePerfectBalance
  /\ sellableAssets # {}
  /\ Abs(amount) <= sellableValue
  /\ WithdrawTowards(sellableAssets \cap HoldingAssets,
                     TargetPercentOf(sellableAssets), sellableValue + amount)
  /\ WithdrawalFrame("sellable")

\* Need to withdraw from all assets
WithdrawFromAll ==
  /\ pc = "external"
  /\ isWithdrawal
  /\ ~(Abs(totalAfter) < Cent)
  /\ ~canAchievePerfectBalance
  /\ sellableAssets # {}
  /\ ~(Abs(amount) <= sellableValue)
  /\ WithdrawTowards(HoldingAssets, totalTargetPercent, totalAfter)
  /\ WithdrawalFrame("all")

\* currentPercent > targetPercent (currentPercent over totalBefore), workingValue > 0.01
overweightedAssets ==
  {i \in Assets : /\ Hundred * workingValue[i] > targetPercent(i) * totalBefore
                  /\ workingValue[i] > Cent}

\* No sellable assets - withdraw from overweighted assets only
WithdrawFromOverweighted ==
  /\ pc = "external"
  /\ isWithdrawal
  /\ ~(Abs(totalAfter) < Cent)
  /\ ~canAchievePerfectBalance
  /\ sellableAssets = {}
  /\ overweightedAssets # {}
  /\ WithdrawTowards(overweightedAssets, TargetPercentOf(overweightedAssets),
                     WorkingValueOf(overweightedAssets) + amount)
  /\ WithdrawalFrame("overweighted")

\* No overweighted assets, withdraw from all assets proportionally to target
WithdrawProportionally ==
  /\ pc = "external"
  /\ isWithdrawal
  /\ ~(Abs(totalAfter) < Cent)
  /\ ~canAchievePerfectBalance
  /\ sellableAssets = {}
  /\ overweightedAssets = {}
  /\ WithdrawTowards(HoldingAssets, totalTargetPercent, totalAfter)
  /\ WithdrawalFrame("proportional")

(***************************************************************************)
(* The external amount: a contribution (the greedy loop, also entered with *)
(* an amount of 0).                                                        *)
(***************************************************************************)
\* the asset the loop selects: the lowest deviation, the first on a tie
selectedAsset == MostUnderWeighted(Assets)

\* roundToCents(Math.min(remainingAmount, Math.max(0, neededAmount)))
adjustmentAmount ==
  roundToCents(
    Min(remainingAmount,
        Max(0, targetValue(selectedAsset) - workingValue[selectedAsset])), 1)

\* the loop is entered and applies its adjustment
CanBuy ==
  /\ Abs(remainingAmount) > Cent
  /\ Abs(adjustmentAmount) > Cent

ContributionBuy ==
  /\ pc = "external"
  /\ ~isWithdrawal
  /\ CanBuy
  /\ workingValue' =
       [workingValue EXCEPT ![selectedAsset] = roundToCents(@ + adjustmentAmount, 1)]
  /\ transaction' =
       [transaction EXCEPT ![selectedAsset] = roundToCents(@ + adjustmentAmount, 1)]
  /\ remainingAmount' = roundToCents(remainingAmount - adjustmentAmount, 1)
  /\ UNCHANGED <<pc, isArray, assetClasses, amount, isNaN, remainingNaN, iteration, branch,
                 result, error, call,
                 totalBefore, totalAfter>>

ContributionDone ==
  /\ pc = "external"
  /\ ~isWithdrawal
  /\ ~CanBuy
  /\ pc' = "cleanup"
  /\ branch' = "contribution"
  /\ UNCHANGED <<isArray, assetClasses, amount, workingValue, transaction, isNaN,
                 remainingAmount, remainingNaN, iteration, result, error, call,
                 totalBefore, totalAfter>>

(***************************************************************************)
(* The remaining amount, applied to one asset.                             *)
(***************************************************************************)
\* Math.abs(remainingAmount) > 0.01, which is false of NaN
HasResidual == ~remainingNaN /\ Abs(remainingAmount) > Cent

\* assets with workingValue > 0
PositiveAssets == {i \in Assets : workingValue[i] > 0}

\* the asset the remaining amount goes to; 0 when there is none (bestAsset is null)
bestAsset ==
  IF isContribution THEN MostUnderWeighted(Assets)
  ELSE IF PositiveAssets # {} THEN MostOverWeighted(PositiveAssets)
  ELSE 0

\* Mutation of plusRemaining: the remaining amount is subtracted.
minusRemaining(value) == roundToCents(value - remainingAmount, 1)

\* roundToCents(value + remainingAmount)
plusRemaining(value) == roundToCents(value + remainingAmount, 1)

ApplyResidual ==
  /\ pc = "cleanup"
  /\ pc' = "output"
  /\ IF HasResidual /\ bestAsset # 0
       THEN /\ workingValue' =
                 [workingValue EXCEPT ![bestAsset] = plusRemaining(@)]
            /\ transaction' =
                 [transaction EXCEPT ![bestAsset] = plusRemaining(@)]
       ELSE UNCHANGED <<workingValue, transaction>>
  /\ UNCHANGED <<isArray, assetClasses, amount, isNaN, remainingAmount, remainingNaN,
                 iteration, branch, result, error, call,
                 totalBefore, totalAfter>>

(***************************************************************************)
(* The result object.                                                      *)
(***************************************************************************)
\* one transaction; nan: its amount, finalValue and finalPercent are NaN
Transaction(i) ==
  [ amount |-> roundToCents(transaction[i], 1),
    currentValue |-> roundToCents(currentValue(i), 1),
    finalValue |-> roundToCents(workingValue[i], 1),
    targetPercent |-> roundToHundredths(targetPercent(i), 1),
    currentPercent |->
      IF totalBefore > 0 THEN roundToHundredths(currentValue(i) * Hundred, totalBefore)
      ELSE 0,
    finalPercent |->
      IF totalAfter > 0 THEN roundToHundredths(workingValue[i] * Hundred, totalAfter)
      ELSE 0,
    nan |-> i \in isNaN ]

Summary ==
  [ totalBefore |-> roundToCents(totalBefore, 1),
    totalAfter |-> roundToCents(totalAfter, 1),
    contribution |-> roundToCents(amount, 1) ]

BuildResult ==
  /\ pc = "output"
  /\ pc' = "done"
  /\ result' = [ kind |-> "rebalance",
                 transactions |-> [i \in Assets |-> Transaction(i)],
                 summary |-> Summary ]
  /\ UNCHANGED <<isArray, assetClasses, amount, workingValue, transaction, isNaN,
                 remainingAmount, remainingNaN, iteration, branch, error, call,
                 totalBefore, totalAfter>>

(***************************************************************************)
(* calculateBalancingContribution(assetClasses)                            *)
(***************************************************************************)
\* the assets the loop considers
TargetedAssets == {i \in Assets : targetPercent(i) > 0}

\* requiredTotal of asset i < requiredTotal of asset j,
\* with requiredTotal = (asset.currentValue * 100) / asset.targetPercent
RequiredTotalLess(i, j) ==
  currentValue(i) * targetPercent(j) < currentValue(j) * targetPercent(i)

\* Mutation of MostDemanding: an asset with the lowest requiredTotal.
LeastDemanding == CHOOSE i \in TargetedAssets :
                    \A j \in TargetedAssets : ~RequiredTotalLess(j, i)

\* an asset with the highest requiredTotal
MostDemanding == CHOOSE i \in TargetedAssets :
                   \A j \in TargetedAssets : ~RequiredTotalLess(i, j)

\* roundToCents(minContribution): minContribution is the maximum of 0 and of
\* requiredTotal - totalBefore over the assets with targetPercent > 0
calculateBalancingContribution ==
  IF TargetedAssets = {} THEN 0
  ELSE LET m == MostDemanding
           num == currentValue(m) * Hundred - TotalCurrentValue * targetPercent(m)
       IN IF num > 0 THEN roundToCents(num, targetPercent(m)) ELSE 0

\* the error calculateBalancingContribution(assetClasses) throws
BalancingError ==
  IF ~isArray \/ N = 0 THEN "assetClasses must be a non-empty array"
  ELSE IF TargetsInvalid THEN "Target percentages must sum to 100%"
  ELSE "none"

CallBalancing ==
  /\ pc = "idle"
  /\ call' = "calculateBalancingContribution"
  /\ error' = BalancingError
  /\ IF BalancingError # "none"
       THEN pc' = "error" /\ UNCHANGED <<result, totalBefore>>
       ELSE /\ pc' = "returned"
            /\ result' = [kind |-> "contribution", value |-> calculateBalancingContribution]
            /\ totalBefore' = TotalCurrentValue
  /\ UNCHANGED <<isArray, assetClasses, amount, workingValue, transaction, isNaN,
                 remainingAmount, remainingNaN, iteration, branch, totalAfter>>

\* rebalancePortfolio(calculateBalancingContribution(assets), assets)
RebalanceWithContribution ==
  /\ pc = "returned"
  /\ call' = "roundtrip"
  /\ Enter(result.value)

(***************************************************************************)
(* A caller that rebalances with amount 0 and calls again with the         *)
(* finalValues it got back as the currentValues, the targetPercent and     *)
(* sell of every asset kept.  The first result stays with the caller until *)
(* the second call returns.                                                *)
(***************************************************************************)
TakeFinalValues ==
  /\ pc = "done"
  /\ call = "rebalancePortfolio"
  /\ amount = 0
  /\ \A i \in Assets : ~result.transactions[i].nan
  /\ pc' = "again"
  /\ assetClasses' =
       [i \in Assets |->
          [assetClasses[i] EXCEPT !.currentValue = result.transactions[i].finalValue]]
  /\ workingValue' = [i \in Assets |-> 0]
  /\ transaction' = [i \in Assets |-> 0]
  /\ remainingAmount' = 0
  /\ iteration' = 0
  /\ branch' = "none"
  /\ totalBefore' = 0
  /\ totalAfter' = 0
  /\ UNCHANGED <<isArray, amount, isNaN, remainingNaN, result, error, call>>

RebalanceAgain ==
  /\ pc = "again"
  /\ call' = "again"
  /\ Enter(0)

Next ==
  \/ CallRebalance
  \/ InternalTransfer
  \/ InternalDone
  \/ WithdrawEntirePortfolio
  \/ WithdrawPerfectBalance
  \/ WithdrawFromSellable
  \/ WithdrawFromAll
  \/ WithdrawFromOverweighted
  \/ WithdrawProportionally
  \/ ContributionBuy
  \/ ContributionDone
  \/ ApplyResidual
  \/ BuildResult
  \/ CallBalancing
  \/ RebalanceWithContribution
  \/ TakeFinalValues
  \/ RebalanceAgain


Spec == Init /\ [][Next]_vars

SpecSubCent == InitSubCent /\ [][Next]_vars

\* the calls of both kinds of input
SpecAllInputs == (Init \/ InitSubCent) /\ [][Next]_vars

(***************************************************************************)
(* Properties of the returned result.                                      *)
(***************************************************************************)
\* rebalancePortfolio has returned its result object
Returned == pc = "done"

\* sum of the returned transaction amounts
SumOfAmounts ==
  SumOver([i \in Assets |-> result.transactions[i].amount], Assets)

\* C1 (as stated): whenever rebalancePortfolio returns numbers, the returned
\* transaction amounts sum to the input amount within 0.02.
C1_Conservation ==
  (Returned /\ isNaN = {}) => Abs(SumOfAmounts - amount) <= 2 * Cent

\* C2 (as stated): no returned transaction has a negative finalValue.
C2_NoNegativeFinalValue ==
  Returned =>
    \A i \in Assets :
      ~result.transactions[i].nan => result.transactions[i].finalValue >= 0

\* C3 (as stated): in every returned transaction finalValue is a number that
\* differs from currentValue + amount by less than 0.01.
C3_ValueConsistency ==
  Returned =>
    \A i \in Assets :
      LET t == result.transactions[i]
      IN /\ ~t.nan
         /\ Abs(t.finalValue - (t.currentValue + t.amount)) < Cent

\* the asset's share of totalAfter when the targetPercents are taken over
\* their own sum, rounded to cents
renormalisedTarget(i) == roundToCents(targetPercent(i) * totalAfter, totalTargetPercent)

C4_WitnessResidual ==
  /\ Returned
  /\ branch = "perfect"
  /\ HasResidual

\* every asset has sell = true
AllSellable == \A i \in Assets : sell(i)

\* C5 (as stated, read with a tolerance of one cent, for portfolios worth 1.00
\* or more): after rebalancePortfolio(0, assets) with every asset sellable,
\* every finalValue is targetPercent/100 * totalBefore to the cent.
C5_ZeroAmountPerfectAllocation ==
  (Returned /\ call = "rebalancePortfolio" /\ amount = 0 /\ AllSellable
     /\ totalBefore >= 100 * Cent) =>
    \A i \in Assets :
      /\ ~result.transactions[i].nan
      /\ Abs(Hundred * result.transactions[i].finalValue - targetPercent(i) * totalBefore)
           <= Hundred * Cent

\* C6: after a contribution (amount > 0) to a portfolio in which no asset has
\* sell = true, every returned transaction amount is a number >= 0.
C6_NoSellContribution ==
  (Returned /\ amount > 0 /\ \A i \in Assets : ~sell(i)) =>
    \A i \in Assets :
      /\ ~result.transactions[i].nan
      /\ result.transactions[i].amount >= 0

\* C6 witness: a contribution to a portfolio without sellable assets in which
\* one asset is bought and another, worth more than its target, is kept.
C6_Witness ==
  /\ Returned
  /\ amount > 0
  /\ \A i \in Assets : ~sell(i)
  /\ \E i \in Assets : result.transactions[i].amount > 0
  /\ \E i \in Assets :
       /\ currentValue(i) > targetValue(i)
       /\ result.transactions[i].amount = 0

\* rebalancePortfolio(calculateBalancingContribution(assets), assets) has returned
RoundTripReturned == Returned /\ call = "roundtrip"

\* C7 (as stated, read with a tolerance of two cents, for portfolios whose
\* targetPercents are all positive): with no sellable asset, the result of
\* rebalancePortfolio(calculateBalancingContribution(assets), assets) has
\* every finalValue at targetPercent/100 * totalAfter.
C7_RoundTripReachesTargets ==
  (RoundTripReturned /\ \A i \in Assets : ~sell(i) /\ targetPercent(i) > 0) =>
    \A i \in Assets :
      /\ ~result.transactions[i].nan
      /\ Abs(Hundred * result.transactions[i].finalValue - targetPercent(i) * totalAfter)
           <= 2 * Hundred * Cent

\* calculateBalancingContribution(assets) has returned its number
BalancingReturned == pc = "returned"

\* (currentValue * 100 / targetPercent) - totalBefore of asset i, rounded to
\* cents, for targetPercent > 0
neededContribution(i) ==
  roundToCents(currentValue(i) * Hundred - TotalCurrentValue * targetPercent(i),
               targetPercent(i))

\* C8: the number returned by calculateBalancingContribution is never
\* negative, is at least (currentValue * 100 / targetPercent) - totalBefore
\* rounded to cents for every asset with targetPercent > 0, is 0 or equal to
\* that quantity for one such asset, and is 0 when every asset is at its target.
C8_BalancingContribution ==
  BalancingReturned =>
    /\ result.value >= 0
    /\ \A i \in Assets : targetPercent(i) > 0 => neededContribution(i) <= result.value
    /\ \/ result.value = 0
       \/ \E i \in Assets : targetPercent(i) > 0 /\ neededContribution(i) = result.value
    /\ (\A i \in Assets : Hundred * currentValue(i) = targetPercent(i) * TotalCurrentValue)
         => result.value = 0

\* C8 witness: a positive contribution returned for a portfolio in which an
\* asset with targetPercent 0 holds value and two other assets differ in what
\* they require.
C8_Witness ==
  /\ BalancingReturned
  /\ result.value > 0
  /\ \E i \in Assets : targetPercent(i) = 0 /\ currentValue(i) > 0
  /\ \E i, j \in Assets :
       /\ targetPercent(i) > 0
       /\ targetPercent(j) > 0
       /\ neededContribution(i) < neededContribution(j)

\* rebalancePortfolio was called to withdraw exactly the value of a portfolio
\* with valid targets
FullLiquidationCall ==
  /\ call = "rebalancePortfolio"
  /\ amount < 0
  /\ amount = -TotalCurrentValue
  /\ Abs(totalTargetPercent - Hundred) * 100 <= Percent

\* C9: a withdrawal of exactly totalBefore is accepted, and in its result every
\* asset with positive currentValue has finalValue 0 and amount -currentValue,
\* whatever the sell flags are.
C9_FullLiquidation ==
  FullLiquidationCall =>
    /\ error = "none"
    /\ Returned =>
         \A i \in Assets :
           currentValue(i) > 0 =>
             /\ ~result.transactions[i].nan
             /\ result.transactions[i].finalValue = 0
             /\ result.transactions[i].amount = -currentValue(i)

\* C9 witness: a returned full liquidation of a portfolio that holds value in
\* an asset with sell = false and in one with sell = true
C9_Witness ==
  /\ FullLiquidationCall
  /\ Returned
  /\ \E i, j \in Assets :
       /\ ~sell(i) /\ currentValue(i) > 0
       /\ sell(j) /\ currentValue(j) > 0

\* C10 (as stated): when a withdrawal took the sellable-only branch (perfect
\* balance not achievable, some asset sellable, the sellable assets worth at
\* least |amount|), every asset with sell = false has amount 0 and
\* finalValue = currentValue.
C10_SellableOnlyWithdrawal ==
  (Returned /\ branch = "sellable" /\ isNaN = {}) =>
    \A i \in Assets :
      ~sell(i) =>
        /\ result.transactions[i].amount = 0
        /\ result.transactions[i].finalValue = currentValue(i)

\* C11 (as stated, read with a tolerance of one cent): when a withdrawal fell
\* back to all assets (perfect balance not achievable, the sellable assets
\* worth less than |amount|), every finalValue is targetPercent/100 * totalAfter.
C11_FallbackToAllAssets ==
  (Returned /\ branch = "all" /\ isNaN = {}) =>
    \A i \in Assets :
      Abs(Hundred * result.transactions[i].finalValue - targetPercent(i) * totalAfter)
        <= Hundred * Cent

\* every returned transaction amount is 0
NoTransactions == \A i \in Assets : result.transactions[i].amount = 0

\* every asset holds exactly its targetPercent of the portfolio
AtTarget ==
  \A i \in Assets : Hundred * currentValue(i) = targetPercent(i) * TotalCurrentValue

MinimumDeviationHigher(g, f) ==
  \E m \in Assets :
    \A k \in Assets : f[m] * targetPercent(k) < g[k] * targetPercent(m)

\* the returned finalValues
FinalValues == [i \in Assets |-> result.transactions[i].finalValue]

\* the returned allocation with ten cents of what asset j was bought for
\* given to asset i instead: again buy-only, with the same sum of amounts
ShiftedTenCents(j, i) ==
  [k \in Assets |->
     FinalValues[k]
       + (IF k = i THEN 10 * Cent ELSE IF k = j THEN -10 * Cent ELSE 0)]

\* C13 (as stated, for portfolios whose targetPercents are all positive): after
\* a contribution with no sellable asset, no other buy-only allocation of the
\* same amount has a higher minimum fractional deviation; in particular none
\* that moves ten cents of a purchase to another asset, and none by more than
\* a cent added to every asset would give.
C13_MaximizesMinimumDeviation ==
  (Returned /\ amount > 0 /\ \A i \in Assets : ~sell(i) /\ targetPercent(i) > 0) =>
    ~ \E j, i \in Assets :
        /\ j # i
        /\ result.transactions[j].amount >= 10 * Cent
        /\ MinimumDeviationHigher(ShiftedTenCents(j, i),
                                  [k \in Assets |-> FinalValues[k] + Cent])

\* C14 (as stated): with amount = 0, a sellable asset worth more than its
\* target (a target of 0 included) is sold when an asset with sell = false is
\* below its target; each by more than a cent.
C14_SellableExcessIsSold ==
  (Returned /\ amount = 0) =>
    \A i \in Assets :
      ( /\ sell(i)
        /\ currentValue(i) > targetValue(i) + Cent
        /\ \E k \in Assets : ~sell(k) /\ currentValue(k) + Cent < targetValue(k) )
      => result.transactions[i].amount < 0

\* the call of the withdrawal example has returned
WithdrawalExampleReturned ==
  Returned /\ assetClasses = WithdrawalExample /\ amount = WithdrawalExampleAmount

\* the amounts of the withdrawal example: Stocks 0, Cash -7500, Bonds -17500
\* (divided by 10000)
WithdrawalExampleAmounts ==
  /\ result.transactions[1].amount = 0
  /\ result.transactions[2].amount = -(75 * Cent)
  /\ result.transactions[3].amount = -(175 * Cent)

C16_Totality ==
  /\ (call = "rebalancePortfolio" /\ pc = "error") => ValidationError(amount) # "none"
  /\ Returned => /\ result.kind = "rebalance"
                 /\ \A i \in Assets : ~result.transactions[i].nan

\* a call of rebalancePortfolio has been made
RebalanceCalled == call \in {"rebalancePortfolio", "roundtrip", "again"}
\* no working state has been built and nothing has been returned
NothingBuilt ==
  /\ pc = "error"
  /\ workingValue = [i \in Assets |-> 0]
  /\ transaction = [i \in Assets |-> 0]
  /\ remainingAmount = 0
  /\ iteration = 0
  /\ branch = "none"
  /\ result = NoResult

\* C17: called with a non-empty list, rebalancePortfolio throws 'Withdrawal
\* amount exceeds total portfolio value' exactly when totalBefore + amount < 0,
\* whatever the targets sum to, and has then built no working state; a
\* withdrawal of exactly totalBefore does not throw it.
C17_WithdrawalExceedsValue ==
  (RebalanceCalled /\ isArray /\ N > 0) =>
    /\ (error = "Withdrawal amount exceeds total portfolio value")
         <=> (TotalCurrentValue + amount < 0)
    /\ (TotalCurrentValue + amount < 0) => NothingBuilt

\* a withdrawal of one cent more than the portfolio holds, the targets not
\* summing to 100, has been rejected
C17_Witness ==
  /\ RebalanceCalled
  /\ N > 0
  /\ amount = -TotalCurrentValue - Cent
  /\ Abs(totalTargetPercent - Hundred) > Percent
  /\ error = "Withdrawal amount exceeds total portfolio value"

\* the sum of the targetPercents differs from 100 by more than 0.01
TargetSumOff == Abs(totalTargetPercent - Hundred) * 100 > Percent
\* a call of either function has been made with a non-empty list
CalledWithList == call # "none" /\ isArray /\ N > 0

\* C18 (as stated): called with a non-empty list, both functions throw
\* 'Target percentages must sum to 100%' whenever the targetPercents sum to
\* more than 0.01 away from 100, and do not throw it otherwise.
C18_InvalidTargetsAsStated ==
  CalledWithList =>
    ((error = "Target percentages must sum to 100%") <=> TargetSumOff)

\* C18 (amended): called with a non-empty list, calculateBalancingContribution
\* throws 'Target percentages must sum to 100%' exactly when the targetPercents
\* sum to more than 0.01 away from 100; rebalancePortfolio throws it exactly
\* when they do and totalBefore + amount >= 0, and throws 'Withdrawal amount
\* exceeds total portfolio value' when they do and totalBefore + amount < 0.
C18_InvalidTargets ==
  CalledWithList =>
    /\ (call = "calculateBalancingContribution") =>
         ((error = "Target percentages must sum to 100%") <=> TargetSumOff)
    /\ RebalanceCalled =>
         /\ (error = "Target percentages must sum to 100%")
              <=> (TargetSumOff /\ TotalCurrentValue + amount >= 0)
         /\ (TargetSumOff /\ TotalCurrentValue + amount < 0)
              => error = "Withdrawal amount exceeds total portfolio value"
    /\ (error = "Target percentages must sum to 100%") => pc = "error" /\ result = NoResult

\* targets summing to 100.01 have been accepted by rebalancePortfolio
C18_Witness ==
  /\ RebalanceCalled
  /\ totalTargetPercent = Hundred + Percent \div 100
  /\ error = "none"
  /\ Returned

\* C19: called with an empty list or with something that is not a list, both
\* functions throw 'assetClasses must be a non-empty array', whatever the
\* amount, before totalBefore or anything else is computed; called with a
\* non-empty list they do not throw it.
C19_InvalidInput ==
  (call # "none") =>
    /\ (~isArray \/ N = 0) =>
         /\ error = "assetClasses must be a non-empty array"
         /\ NothingBuilt
         /\ totalBefore = 0 /\ totalAfter = 0
    /\ (isArray /\ N > 0) => error # "assetClasses must be a non-empty array"

\* rebalancePortfolio has rejected an empty list or a non-list with an amount
\* below 0, which is below totalBefore + amount for any list
C19_Witness ==
  /\ call = "rebalancePortfolio"
  /\ N = 0
  /\ amount < 0
  /\ error = "assetClasses must be a non-empty array"

\* C20 (as stated): in every returned summary, totalAfter is exactly
\* totalBefore + contribution, the three taken as returned (rounded to cents).
C20_TotalConsistency ==
  Returned =>
    result.summary.totalAfter = result.summary.totalBefore + result.summary.contribution

\* value is a whole number of cents
WholeCents(value) == value % Cent = 0
\* percent is a whole number of hundredths of a percentage point
WholeHundredths(percent) == percent % (Percent \div 100) = 0

\* the fields of the returned transactions and summary that are numbers are
\* whole numbers of hundredths
RoundedFields ==
  /\ \A i \in Assets :
       /\ WholeCents(result.transactions[i].currentValue)
       /\ WholeHundredths(result.transactions[i].targetPercent)
       /\ WholeHundredths(result.transactions[i].currentPercent)
       /\ ~result.transactions[i].nan =>
            /\ WholeCents(result.transactions[i].amount)
            /\ WholeCents(result.transactions[i].finalValue)
            /\ WholeHundredths(result.transactions[i].finalPercent)
  /\ WholeCents(result.summary.totalBefore)
  /\ WholeCents(result.summary.totalAfter)
  /\ WholeCents(result.summary.contribution)

\* C21 (as stated): every monetary and percentage field of every returned
\* transaction and of the summary is a number and a whole number of
\* hundredths, and so is the number calculateBalancingContribution returns.
C21_RoundingClosure ==
  /\ Returned => /\ RoundedFields
                 /\ \A i \in Assets : ~result.transactions[i].nan
  /\ pc = "returned" => WholeCents(result.value)

\* a call of rebalancePortfolio passes the validation in this step
PassesValidation ==
  /\ pc \in {"idle", "returned", "again"}
  /\ pc' \in {"internal", "external"}
\* the internal rebalancing loop is entered in this step
EntersInternal == pc # "internal" /\ pc' = "internal"
\* the external amount is applied in this step
AppliesExternal == branch' # branch /\ branch' # "none"

\* C22 (as stated): the internal rebalancing loop is entered, and before the
\* external amount is applied, by every call that passes the validation with
\* an asset with sell = true and totalAfter > 0.01, and by no other call.
C22_PhaseOrderingAsStated ==
  [][ /\ PassesValidation =>
           (EntersInternal <=> ((\E i \in Assets : sell(i)) /\ totalAfter' > Cent))
      /\ AppliesExternal => (pc = "external" /\ pc' = "cleanup")
    ]_vars

\* C22 (amended): the internal rebalancing loop is entered, and before the
\* external amount is applied, by every call that passes the validation with
\* an asset with sell = true, totalAfter > 0.01 and either amount >= 0 or
\* every asset with sell = true, and by no other call: a withdrawal from a
\* portfolio with mixed sell flags skips it.
C22_PhaseOrdering ==
  [][ /\ PassesValidation =>
           (EntersInternal <=> /\ \E i \in Assets : sell(i)
                               /\ totalAfter' > Cent
                               /\ (amount' >= 0 \/ \A i \in Assets : sell(i)))
      /\ EntersInternal => PassesValidation
      /\ AppliesExternal => (pc = "external" /\ pc' = "cleanup")
    ]_vars

\* a withdrawal from a portfolio of sellable assets has returned, and its
\* internal rebalancing loop made a transfer
C22_Witness ==
  /\ Returned
  /\ amount < 0
  /\ iteration > 0
  /\ \A i \in Assets : sell(i)

\* the contribution loop stops in this step
ContributionLoopStops == pc = "external" /\ amount > 0 /\ pc' = "cleanup"

\* C23 (as stated): the contribution loop buys, for the asset with the lowest
\* deviation, the rounded minimum of the remaining amount and of what the asset
\* needs to reach its target, and it stops only when that buy or the remaining
\* amount is below 0.01: a buy of exactly 0.01 is made.
C23_ContributionLoop ==
  [][ /\ ContributionLoopStops =>
           (remainingAmount < Cent \/ adjustmentAmount < Cent)
      /\ (pc = "external" /\ amount > 0 /\ pc' = "external") =>
           /\ workingValue' = [workingValue EXCEPT ![selectedAsset] = @ + adjustmentAmount]
           /\ remainingAmount' = remainingAmount - adjustmentAmount
    ]_vars

\* the cleanup runs in this step with a remaining amount of more than 0.01,
\* left by a branch other than the withdrawal of the entire portfolio
ResidualStep ==
  /\ pc = "cleanup"
  /\ pc' = "output"
  /\ branch # "entire"
  /\ ~remainingNaN
  /\ isNaN = {}
  /\ Abs(remainingAmount) > Cent

\* asset b is the one the claim names: the lowest deviation for a
\* contribution, the highest among the assets with positive workingValue for
\* a withdrawal
NamedForResidual(b) ==
  IF amount > 0
    THEN \A j \in Assets : ~DeviationLess(j, b)
    ELSE /\ workingValue[b] > 0
         /\ \A j \in Assets : workingValue[j] > 0 => ~DeviationLess(b, j)

\* C24 (as stated): a remaining amount of more than 0.01 is applied whole to
\* exactly one asset, the one the claim names, no other asset changes, and
\* afterwards the transactions sum to the input amount (within a cent).
C24_ResidualCleanup ==
  [][ ResidualStep =>
        /\ \E b \in Assets :
             /\ NamedForResidual(b)
             /\ workingValue' = [workingValue EXCEPT ![b] = @ + remainingAmount]
             /\ transaction' = [transaction EXCEPT ![b] = @ + remainingAmount]
        /\ Abs(SumOver(transaction', Assets) - amount) <= Cent
    ]_vars

\* an iteration of the internal rebalancing loop makes its transfer in this step
TransferStep == pc = "internal" /\ pc' = "internal"

\* C25 (as stated): every transfer of the internal rebalancing loop takes a
\* positive whole number of cents from one asset with sell = true and adds
\* the same amount to another asset with sell = true, to workingValue and to
\* transaction alike; no other asset and not the remaining amount is changed,
\* and after the transfer the workingValues sum to totalBefore and the
\* transactions to 0.
C25_InternalTransferClosedAsStated ==
  [][ TransferStep =>
        /\ \E s, b \in Assets :
             /\ s # b
             /\ sell(s) /\ sell(b)
             /\ LET moved == workingValue[s] - workingValue'[s]
                IN /\ moved >= Cent
                   /\ WholeCents(moved)
                   /\ workingValue' =
                        [workingValue EXCEPT ![s] = @ - moved, ![b] = @ + moved]
                   /\ transaction' =
                        [transaction EXCEPT ![s] = @ - moved, ![b] = @ + moved]
        /\ remainingAmount' = remainingAmount
        /\ remainingAmount = amount
        /\ SumOver(workingValue', Assets) = totalBefore
        /\ SumOver(transaction', Assets) = 0
        /\ \A i \in Assets : ~sell(i) => /\ workingValue'[i] = currentValue(i)
                                         /\ transaction'[i] = 0
    ]_vars

\* every currentValue is a whole number of cents
CentValued == \A i \in Assets : WholeCents(currentValue(i))

\* C25 (amended): every transfer of the internal rebalancing loop subtracts a
\* positive whole number of cents from the transaction of one asset with
\* sell = true and adds it to the transaction of another asset with
\* sell = true, and moves their workingValues by the same amount, rounded to
\* cents; no other asset and not the remaining amount is changed, and the
\* transactions sum to 0.  The workingValues sum to totalBefore for
\* currentValues in whole cents, and to within half a cent per asset with
\* sell = true otherwise.
C25_InternalTransferClosed ==
  [][ TransferStep =>
        /\ \E s, b \in Assets :
             /\ s # b
             /\ sell(s) /\ sell(b)
             /\ LET moved == transaction[s] - transaction'[s]
                IN /\ moved >= Cent
                   /\ WholeCents(moved)
                   /\ transaction' =
                        [transaction EXCEPT ![s] = @ - moved, ![b] = @ + moved]
                   /\ workingValue' =
                        [workingValue EXCEPT ![s] = roundToCents(@ - moved, 1),
                                             ![b] = roundToCents(@ + moved, 1)]
        /\ remainingAmount' = remainingAmount
        /\ remainingAmount = amount
        /\ SumOver(transaction', Assets) = 0
        /\ CentValued => SumOver(workingValue', Assets) = totalBefore
        /\ 2 * Abs(SumOver(workingValue', Assets) - totalBefore)
             <= Cent * Cardinality({i \in Assets : sell(i)})
        /\ \A i \in Assets : ~sell(i) => /\ workingValue'[i] = currentValue(i)
                                         /\ transaction'[i] = 0
    ]_vars

\* a transfer has been made in a portfolio that also holds value in an asset
\* with sell = false, and with an amount other than 0
C25_Witness ==
  /\ pc = "internal"
  /\ iteration > 0
  /\ amount # 0
  /\ \E i \in Assets : ~sell(i) /\ currentValue(i) > 0

\* asset i is within half a cent of (targetPercent / 100) * totalAfter
AtOwnTarget(w, i) ==
  2 * Abs(Hundred * w[i] - targetPercent(i) * totalAfter) <= Cent * Hundred

C27_NoOvershoot ==
  (Returned /\ amount > 0 /\ \A i \in Assets : ~sell(i)) =>
    \A i \in Assets :
      result.transactions[i].amount > 0 =>
        result.transactions[i].finalValue <= targetValue(i) + 5 * Cent

\* C28 (as stated, with two cents of tolerance): a withdrawal from a
\* portfolio with no sellable asset that returns numbers returns no amount
\* above 0.02.
C28_WithdrawalNeverBuys ==
  (Returned /\ amount < 0 /\ isNaN = {} /\ \A i \in Assets : ~sell(i)) =>
    \A i \in Assets : result.transactions[i].amount <= 2 * Cent

\* Hundred times the excess of value w[i] over the target value of asset i,
\* (targetPercent / 100) * totalAfter
ExcessNum(w, i) == Hundred * w[i] - targetPercent(i) * totalAfter

HalfCent == Cent \div 2

OvershootBound == IF CentValued THEN HalfCent * Hundred ELSE Cent * Hundred - 1

SecondCallReturned == Returned /\ call = "again"

\* C30: when the finalValues returned by a call with amount 0 and whole-cent
\* currentValues are the currentValues of a second call with amount 0, the
\* same targets and the same sell flags, the second call returns amount 0
\* and a finalValue equal to the currentValue for every asset.
C30_ZeroAmountIdempotent ==
  SecondCallReturned =>
    \A i \in Assets :
      /\ result.transactions[i].amount = 0
      /\ result.transactions[i].finalValue = result.transactions[i].currentValue
      /\ ~result.transactions[i].nan

\* the second call is past its internal loop without a transfer, and the
\* first call, whose result the caller still holds, did move money
C30_Witness ==
  /\ call = "again"
  /\ pc = "output"
  /\ result.kind = "rebalance"
  /\ \E i \in Assets : result.transactions[i].amount > Cent
  /\ \A i \in Assets : transaction[i] = 0

====
